---- MODULE Spec2Model ----
(***************************************************************************)
(* Model of the CA-SSN Field Data Manager (cassn_field_data_manager.py):   *)
(* the three-tab wizard (FieldDataWizard), the SD-card copy loop           *)
(* (process_sd_card_files), the manifest writer and the Box uploader      *)
(* (BoxUploadThread).                                                      *)
(*                                                                         *)
(* The GUI thread runs one handler at a time; the copy loop runs on the    *)
(* GUI thread and is modelled file by file (copy step, record step), so    *)
(* upload threads interleave with it.  Every name (folder, file) is a      *)
(* tuple so that names of different shapes can be compared.                *)
(***************************************************************************)
EXTENDS Integers, Sequences, FiniteSets, TLC

\* ---------------------------------------------------------------- bounds
MaxCardLen == 2      \* files on one SD card
MaxInventory == 2    \* records kept in file_inventory before copying stops
MaxThreads == 2      \* BoxUploadThread objects alive at once
MaxBoxFolders == 4   \* folders the remote store accepts

\* ------------------------------------------------------- program constants
\* DEVICE_TYPES / plots restricted to two devices, in checkbox order
AllDevices == <<"p1_ML", "p1_BD">>
IMAGE_EXTENSIONS == {".jpg", ".png"}
AUDIO_EXTENSIONS == {".wav"}

\* deployment end dates: <<YYYYMM, DD>>
EndDates == {<<"202401", "05">>, <<"202401", "20">>}
SiteCodes == {"Bodega"}

NoMeta == [site |-> "", deployment_end |-> <<"", "">>]
None == <<>>
NoCopy == [pc |-> "idle"]

\* ------------------------------------------------------------ pure helpers
\* str.lower() on the extensions that occur on the cards
Lower(ext) ==
    CASE ext = ".JPG" -> ".jpg"
      [] ext = ".WAV" -> ".wav"
      [] OTHER -> ext

\* Path(filename).suffix : the name's last extension ("" for a name that
\* is only a leading dot plus stem)
Suffix(f) == f.ext

\* classify_file without .lower(): upper-case extensions become "other"
classify_file_NoLower(f) ==
    IF Suffix(f) \in IMAGE_EXTENSIONS THEN "image"
    ELSE IF Suffix(f) \in AUDIO_EXTENSIONS THEN "audio"
    ELSE "other"

classify_file(f) ==
    IF Lower(Suffix(f)) \in IMAGE_EXTENSIONS THEN "image"
    ELSE IF Lower(Suffix(f)) \in AUDIO_EXTENSIONS THEN "audio"
    ELSE "other"

\* filename.startswith('.') or filename.startswith('_')
IsHidden(f) == f.first \in {".", "_"}

\* the files an SD card can hold: first character, extension, directory
SrcFiles ==
    {[first |-> "I", ext |-> ".JPG", dir |-> "DCIM/100"],
     [first |-> "I", ext |-> ".wav", dir |-> ""],
     [first |-> "I", ext |-> ".txt", dir |-> ""],
     [first |-> ".", ext |-> ".JPG", dir |-> "DCIM/100"],
     [first |-> "_", ext |-> ".wav", dir |-> ""]}

RECURSIVE SeqsUpTo(_, _)
SeqsUpTo(S, n) ==
    IF n = 0 THEN {<<>>}
    ELSE LET shorter == SeqsUpTo(S, n - 1)
         IN shorter \cup {Append(s, x) : s \in {t \in shorter : Len(t) = n - 1}, x \in S}

\* os.walk order of the files of a card
Cards == SeqsUpTo(SrcFiles, MaxCardLen)

\* create_deployment_folder: {organization}_{site}_{deployment_end without '-'}
FolderName(m) == <<"UC", m.site, m.deployment_end[1], m.deployment_end[2]>>

FolderNames == {FolderName([site |-> s, deployment_end |-> d]) : s \in SiteCodes, d \in EndDates}

\* the decimal digits of a natural number
RECURSIVE Digits(_)
Digits(n) == IF n < 10 THEN <<n>> ELSE Append(Digits(n \div 10), n % 10)

\* zero padding on the left up to width w
RECURSIVE PadLeft(_, _)
PadLeft(s, w) == IF Len(s) >= w THEN s ELSE PadLeft(<<0>> \o s, w)

\* seq_str = f"{file_sequence:05d}"
SeqStr(n) == PadLeft(Digits(n), 5)

\* process_sd_card_files: {org}_{site}_plot{n}_{dev}_{YYYYMM}_{seq:05d}{ext}
NewFilename(m, dev, seq, ext) ==
    <<"UC", m.site, dev, m.deployment_end[1], SeqStr(seq), ext>>

\* Paths relative to a deployment folder are tuples of names: a file at
\* the top (length 1), a device directory raw_data/<device> (length 2) or
\* a file in a device directory (length 3)
RawPath(dev, name) == <<(<<"raw_data">>), <<dev>>, name>>
RawDir(dev) == <<(<<"raw_data">>), <<dev>>>>
MetaPath(n) == <<(<<n>>)>>

IsFile(p) == Len(p) # 2
FilesOf(entries) == {p \in entries : IsFile(p)}
TopFiles(entries) == {p \in entries : Len(p) = 1}
DeviceDirs(entries) == {p \in entries : Len(p) = 2}
FilesIn(entries, d) == {p \in entries : Len(p) = 3 /\ SubSeq(p, 1, 2) = d}

\* devices checked on the form, in grid order
RECURSIVE Filter(_, _)
Filter(s, S) ==
    IF s = <<>> THEN <<>>
    ELSE IF Head(s) \in S THEN <<Head(s)>> \o Filter(Tail(s), S)
    ELSE Filter(Tail(s), S)

Range(s) == {s[i] : i \in DOMAIN s}

VARIABLES
    tabs,                       \* QTabWidget.currentIndex(): 0, 1, 2
    metadata,                   \* self.metadata
    devices,                    \* self.devices (device labels)
    device_tree,                \* rows of self.device_tree
    current_deployment_folder,  \* folder name or None
    file_inventory,             \* self.file_inventory
    box_authenticated,          \* self.box_authenticated
    buttons,                    \* enabled state of open_btn, upload_now_btn, new_btn
    disk,                       \* staging root: folder name -> set of relative paths
    copy,                       \* the running process_sd_card_files call, or NoCopy
    lastMsg,                    \* message box shown (or exception raised) by the latest handler
    threads,                    \* BoxUploadThread objects not yet handled by on_upload_finished
    box                         \* the remote store: folders and files

vars == <<tabs, metadata, devices, device_tree, current_deployment_folder,
          file_inventory, box_authenticated, buttons, disk, copy, lastMsg,
          threads, box>>

wizardVars == <<tabs, metadata, devices, device_tree, current_deployment_folder,
                file_inventory, box_authenticated, buttons>>

\* -------------------------------------------------------------------- Init
\* Init with upload_now_btn left enabled whatever check_box_auth returned
Init_ButtonEnabled ==
    /\ tabs = 0
    /\ metadata = NoMeta
    /\ devices = <<>>
    /\ device_tree = <<>>
    /\ current_deployment_folder = None
    /\ file_inventory = <<>>
    /\ box_authenticated \in BOOLEAN
    /\ buttons = [open_btn |-> TRUE, upload_now_btn |-> TRUE, new_btn |-> TRUE]
    /\ disk = [f \in FolderNames |-> {}]
    /\ copy = NoCopy
    /\ lastMsg = "none"
    /\ threads = <<>>
    /\ box = [folders |-> <<>>, files |-> {}]

Init ==
    /\ tabs = 0
    /\ metadata = NoMeta
    /\ devices = <<>>
    /\ device_tree = <<>>
    /\ current_deployment_folder = None
    /\ file_inventory = <<>>
    /\ box_authenticated \in BOOLEAN
    /\ buttons = [open_btn |-> TRUE, upload_now_btn |-> box_authenticated, new_btn |-> TRUE]
    /\ disk = [f \in FolderNames |-> {}]
    /\ copy = NoCopy
    /\ lastMsg = "none"
    /\ threads = <<>>
    /\ box = [folders |-> <<>>, files |-> {}]

\* the GUI thread is free to run a handler
GuiIdle == copy = NoCopy

Running(t) == t.pc # "emitted"

\* BoxUploadThread.__init__
NewThread(folder) ==
    [deployment_folder |-> folder, pc |-> "auth", deploy_folder |-> 0,
     total_files |-> 0, uploaded |-> 0,
     stage |-> "start", pending |-> {}, dirs |-> {}, walked |-> {},
     file |-> <<>>, part |-> 0, current_folder_id |-> 0, result |-> "none"]

\* ------------------------------------------------------ step 1: metadata tab
\* what the form holds when 'Next: Collect SD Card Data' is pressed
\* on_reserve_changed: the read-only site code is the code of the reserve
\* text, or still empty when the text was never changed since startup;
\* the 'Other' name is only looked at when the observer is 'Other'
FormOk(form) ==
    /\ form.site_code # "" =>
            (form.reserve = "Bodega Marine Reserve" /\ form.site_code \in SiteCodes)
    /\ form.observer # "Other" => form.other = ""

Forms ==
    {form \in [reserve : {"", "typo", "Bodega Marine Reserve"},
               site_code : {"", "Bodega"},
               observer : {"", "Imperato, John", "Other"},
               other : {"", " ", "Ann"},
               deployment_end : EndDates,
               checked : SUBSET Range(AllDevices)] : FormOk(form)}

\* populate_collection_list
TreeRows(devs) == [i \in 1..Len(devs) |-> [dev |-> devs[i], status |-> "Pending", copied |-> 0]]

\* QTabWidget: every tab is enabled, the user may click any of them
TabClick(i) ==
    /\ GuiIdle
    /\ i # tabs
    /\ tabs' = i
    /\ lastMsg' = "none"
    /\ UNCHANGED <<metadata, devices, device_tree, current_deployment_folder,
                   file_inventory, box_authenticated, buttons, disk, copy,
                   threads, box>>

\* str.strip() on the texts the 'Other' field can hold
Strip(x) == IF x = " " THEN "" ELSE x

\* validate_and_next without .strip(): a blank 'Other' name is accepted
validate_and_next_NoStrip(form) ==
    /\ GuiIdle
    /\ tabs = 0
    /\ IF form.reserve = "" THEN
            /\ lastMsg' = "Please select a site."
            /\ UNCHANGED <<tabs, metadata, devices, device_tree,
                           current_deployment_folder, disk>>
       ELSE IF form.site_code = "" THEN
            /\ lastMsg' = "Please select a valid site."
            /\ UNCHANGED <<tabs, metadata, devices, device_tree,
                           current_deployment_folder, disk>>
       ELSE IF form.observer = "" THEN
            /\ lastMsg' = "Please select who is downloading data."
            /\ UNCHANGED <<tabs, metadata, devices, device_tree,
                           current_deployment_folder, disk>>
       ELSE IF form.observer = "Other" /\ form.other = "" THEN
            /\ lastMsg' = "Please enter a name for 'Other' option."
            /\ UNCHANGED <<tabs, metadata, devices, device_tree,
                           current_deployment_folder, disk>>
       ELSE
            /\ metadata' = [site |-> form.site_code, deployment_end |-> form.deployment_end]
            /\ devices' = Filter(AllDevices, form.checked)
            /\ IF devices' = <<>> THEN
                    /\ lastMsg' = "Please select at least one device."
                    /\ UNCHANGED <<tabs, device_tree, current_deployment_folder, disk>>
               ELSE
                    \* create_deployment_folder, populate_collection_list
                    /\ current_deployment_folder' = FolderName(metadata')
                    /\ disk' = [disk EXCEPT ![FolderName(metadata')] =
                                    @ \cup {MetaPath("deployment_metadata.json")}]
                    /\ device_tree' = TreeRows(devices')
                    /\ tabs' = 1
                    /\ lastMsg' = "none"
    /\ UNCHANGED <<file_inventory, box_authenticated, buttons, copy, threads, box>>

validate_and_next(form) ==
    /\ GuiIdle
    /\ tabs = 0
    /\ IF form.reserve = "" THEN
            /\ lastMsg' = "Please select a site."
            /\ UNCHANGED <<tabs, metadata, devices, device_tree,
                           current_deployment_folder, disk>>
       ELSE IF form.site_code = "" THEN
            /\ lastMsg' = "Please select a valid site."
            /\ UNCHANGED <<tabs, metadata, devices, device_tree,
                           current_deployment_folder, disk>>
       ELSE IF form.observer = "" THEN
            /\ lastMsg' = "Please select who is downloading data."
            /\ UNCHANGED <<tabs, metadata, devices, device_tree,
                           current_deployment_folder, disk>>
       ELSE IF form.observer = "Other" /\ Strip(form.other) = "" THEN
            /\ lastMsg' = "Please enter a name for 'Other' option."
            /\ UNCHANGED <<tabs, metadata, devices, device_tree,
                           current_deployment_folder, disk>>
       ELSE
            /\ metadata' = [site |-> form.site_code, deployment_end |-> form.deployment_end]
            /\ devices' = Filter(AllDevices, form.checked)
            /\ IF devices' = <<>> THEN
                    /\ lastMsg' = "Please select at least one device."
                    /\ UNCHANGED <<tabs, device_tree, current_deployment_folder, disk>>
               ELSE
                    \* create_deployment_folder, populate_collection_list
                    /\ current_deployment_folder' = FolderName(metadata')
                    /\ disk' = [disk EXCEPT ![FolderName(metadata')] =
                                    @ \cup {MetaPath("deployment_metadata.json")}]
                    /\ device_tree' = TreeRows(devices')
                    /\ tabs' = 1
                    /\ lastMsg' = "none"
    /\ UNCHANGED <<file_inventory, box_authenticated, buttons, copy, threads, box>>

\* '<- Back' on the collection tab
back_btn ==
    /\ GuiIdle
    /\ tabs = 1
    /\ tabs' = 0
    /\ lastMsg' = "none"
    /\ UNCHANGED <<metadata, devices, device_tree, current_deployment_folder,
                   file_inventory, box_authenticated, buttons, disk, copy,
                   threads, box>>

\* ---------------------------------------------------- step 2: collection tab
\* sel: row of device_tree.currentItem(), 0 when there is none
\* again: answer to 'Already Complete ... Copy again?'
\* picked: a directory was chosen in the file dialog (not cancelled)
\* card: the files under the chosen directory, in os.walk order
copy_sd_card_data(sel, again, picked, card) ==
    /\ GuiIdle
    /\ tabs = 1
    /\ UNCHANGED <<tabs, metadata, devices, device_tree, current_deployment_folder,
                   file_inventory, box_authenticated, buttons, threads, box>>
    /\ IF sel = 0 THEN
            /\ lastMsg' = "Please select a device from the list."
            /\ UNCHANGED <<copy, disk>>
       ELSE IF sel > Len(devices) THEN
            /\ lastMsg' = "IndexError"
            /\ UNCHANGED <<copy, disk>>
       ELSE IF device_tree[sel].status = "Complete" /\ ~again THEN
            /\ lastMsg' = "Already Complete"
            /\ UNCHANGED <<copy, disk>>
       ELSE IF ~picked THEN
            /\ lastMsg' = "none"
            /\ UNCHANGED <<copy, disk>>
       ELSE IF current_deployment_folder = None THEN
            /\ lastMsg' = "TypeError"
            /\ UNCHANGED <<copy, disk>>
       ELSE
            /\ Len(file_inventory) + Len(card) <= MaxInventory
            /\ lastMsg' = "none"
            \* device_folder.mkdir(parents=True, exist_ok=True)
            /\ disk' = [disk EXCEPT ![current_deployment_folder] = @ \cup {RawDir(devices[sel])}]
            /\ copy' = [pc |-> "walk", row |-> sel, device_label |-> devices[sel],
                        dest_dir |-> current_deployment_folder, source_dir |-> card,
                        walk |-> card, files_copied |-> 0, file_sequence |-> 1]

\* process_sd_card_files, one loop iteration: the file is skipped
process_skip ==
    /\ copy.pc = "walk"
    /\ copy.walk # <<>>
    /\ IsHidden(Head(copy.walk)) \/ classify_file(Head(copy.walk)) = "other"
    /\ copy' = [copy EXCEPT !.walk = Tail(@)]
    /\ UNCHANGED <<tabs, metadata, devices, device_tree, current_deployment_folder,
                   file_inventory, box_authenticated, buttons, disk, lastMsg,
                   threads, box>>

\* the destination path of the file the loop is at
DestPath(c) ==
    RawPath(c.device_label,
            NewFilename(metadata, c.device_label, c.file_sequence,
                        Lower(Suffix(Head(c.walk)))))

\* process_copy with the copy left out: the record would precede the file
process_copy_RecordFirst ==
    /\ copy.pc = "walk"
    /\ copy.walk # <<>>
    /\ ~IsHidden(Head(copy.walk))
    /\ classify_file(Head(copy.walk)) # "other"
    /\ copy' = [copy EXCEPT !.pc = "record"]
    /\ UNCHANGED <<tabs, metadata, devices, device_tree, current_deployment_folder,
                   file_inventory, box_authenticated, buttons, disk, lastMsg,
                   threads, box>>

\* shutil.copy2(source_path, dest_path)
process_copy ==
    /\ copy.pc = "walk"
    /\ copy.walk # <<>>
    /\ ~IsHidden(Head(copy.walk))
    /\ classify_file(Head(copy.walk)) # "other"
    /\ disk' = [disk EXCEPT ![copy.dest_dir] = @ \cup {DestPath(copy)}]
    /\ copy' = [copy EXCEPT !.pc = "record"]
    /\ UNCHANGED <<tabs, metadata, devices, device_tree, current_deployment_folder,
                   file_inventory, box_authenticated, buttons, lastMsg,
                   threads, box>>

\* process_copy_raises with the row update in a finally clause: the row is
\* marked Complete although the copy failed
process_copy_raises_MarksComplete ==
    /\ copy.pc = "walk"
    /\ copy.walk # <<>>
    /\ ~IsHidden(Head(copy.walk))
    /\ classify_file(Head(copy.walk)) # "other"
    /\ copy' = NoCopy
    /\ lastMsg' = "Copy Error"
    /\ device_tree' = [device_tree EXCEPT ![copy.row] =
                            [@ EXCEPT !.status = "Complete", !.copied = copy.files_copied]]
    /\ UNCHANGED <<tabs, metadata, devices, current_deployment_folder,
                   file_inventory, box_authenticated, buttons, disk, threads, box>>

\* shutil.copy2 raises: caught by copy_sd_card_data, 'Copy Error' is shown
process_copy_raises ==
    /\ copy.pc = "walk"
    /\ copy.walk # <<>>
    /\ ~IsHidden(Head(copy.walk))
    /\ classify_file(Head(copy.walk)) # "other"
    /\ copy' = NoCopy
    /\ lastMsg' = "Copy Error"
    /\ UNCHANGED <<tabs, metadata, devices, device_tree, current_deployment_folder,
                   file_inventory, box_authenticated, buttons, disk, threads, box>>

\* process_record with file_sequence += 1 left out
process_record_NoIncrement ==
    /\ copy.pc = "record"
    /\ file_inventory' = Append(file_inventory,
            [new_filename |-> DestPath(copy)[3],
             device_label |-> copy.device_label,
             file_type |-> classify_file(Head(copy.walk))])
    /\ copy' = [copy EXCEPT !.pc = "walk", !.walk = Tail(@), !.files_copied = @ + 1]
    /\ UNCHANGED <<tabs, metadata, devices, device_tree, current_deployment_folder,
                   box_authenticated, buttons, disk, lastMsg, threads, box>>

\* EXIF, hash, file_inventory.append(file_info), counters
process_record ==
    /\ copy.pc = "record"
    /\ file_inventory' = Append(file_inventory,
            [new_filename |-> DestPath(copy)[3],
             device_label |-> copy.device_label,
             file_type |-> classify_file(Head(copy.walk))])
    /\ copy' = [copy EXCEPT !.pc = "walk", !.walk = Tail(@),
                            !.files_copied = @ + 1, !.file_sequence = @ + 1]
    /\ UNCHANGED <<tabs, metadata, devices, device_tree, current_deployment_folder,
                   box_authenticated, buttons, disk, lastMsg, threads, box>>

\* compute_file_hash / stat raises after the copy: caught the same way
process_record_raises ==
    /\ copy.pc = "record"
    /\ copy' = NoCopy
    /\ lastMsg' = "Copy Error"
    /\ UNCHANGED <<tabs, metadata, devices, device_tree, current_deployment_folder,
                   file_inventory, box_authenticated, buttons, disk, threads, box>>

\* the walk is over: return files_copied; the row becomes Complete
process_return ==
    /\ copy.pc = "walk"
    /\ copy.walk = <<>>
    /\ device_tree' = [device_tree EXCEPT ![copy.row] =
                            [@ EXCEPT !.status = "Complete", !.copied = copy.files_copied]]
    /\ copy' = NoCopy
    /\ UNCHANGED <<tabs, metadata, devices, current_deployment_folder,
                   file_inventory, box_authenticated, buttons, disk, lastMsg,
                   threads, box>>

skip_device(sel) ==
    /\ GuiIdle
    /\ tabs = 1
    /\ UNCHANGED <<tabs, metadata, devices, current_deployment_folder,
                   file_inventory, box_authenticated, buttons, disk, copy,
                   threads, box>>
    /\ IF sel = 0 THEN
            /\ lastMsg' = "Please select a device from the list."
            /\ UNCHANGED device_tree
       ELSE IF sel > Len(devices) THEN
            /\ lastMsg' = "IndexError"
            /\ UNCHANGED device_tree
       ELSE
            /\ device_tree' = [device_tree EXCEPT ![sel] =
                                    [@ EXCEPT !.status = "Skipped", !.copied = 0]]
            /\ lastMsg' = "none"

\* ------------------------------------------------------- step 3: review tab
AllDisabled == [open_btn |-> FALSE, upload_now_btn |-> FALSE, new_btn |-> FALSE]
AllEnabled == [open_btn |-> TRUE, upload_now_btn |-> TRUE, new_btn |-> TRUE]

\* upload_to_box: the part of a handler that starts an upload
upload_to_box ==
    IF ~box_authenticated THEN
        /\ lastMsg' = "Please authenticate with Box first."
        /\ UNCHANGED <<buttons, threads>>
    ELSE
        /\ Len(threads) < MaxThreads
        /\ buttons' = AllDisabled
        /\ threads' = Append(threads, NewThread(current_deployment_folder))
        /\ lastMsg' = "none"

\* generate_metadata_files writes file_metadata.csv and manifest.json
MetadataFiles == {MetaPath("file_metadata.csv"), MetaPath("manifest.json")}

\* validate_and_next_collection with the answer to the question ignored
validate_and_next_collection_NoAsk(reply, cb) ==
    /\ GuiIdle
    /\ tabs = 1
    /\ cb => box_authenticated
    /\ UNCHANGED <<metadata, devices, device_tree, current_deployment_folder,
                   file_inventory, box_authenticated, copy, box>>
    /\ IF current_deployment_folder = None THEN
            /\ lastMsg' = "TypeError"
            /\ UNCHANGED <<tabs, disk, buttons, threads>>
       ELSE
            /\ disk' = [disk EXCEPT ![current_deployment_folder] = @ \cup MetadataFiles]
            /\ tabs' = 2
            /\ IF cb /\ box_authenticated
               THEN upload_to_box
               ELSE /\ lastMsg' = "none"
                    /\ UNCHANGED <<buttons, threads>>

\* reply: answer to 'Some devices are still pending. Continue anyway?'
\* cb: upload_to_box_cb.isChecked()
validate_and_next_collection(reply, cb) ==
    /\ GuiIdle
    /\ tabs = 1
    /\ cb => box_authenticated
    /\ UNCHANGED <<metadata, devices, device_tree, current_deployment_folder,
                   file_inventory, box_authenticated, copy, box>>
    /\ IF (\E i \in DOMAIN device_tree : device_tree[i].status = "Pending") /\ ~reply THEN
            /\ lastMsg' = "Incomplete Collection"
            /\ UNCHANGED <<tabs, disk, buttons, threads>>
       ELSE IF current_deployment_folder = None THEN
            /\ lastMsg' = "TypeError"
            /\ UNCHANGED <<tabs, disk, buttons, threads>>
       ELSE
            /\ disk' = [disk EXCEPT ![current_deployment_folder] = @ \cup MetadataFiles]
            /\ tabs' = 2
            /\ IF cb /\ box_authenticated
               THEN upload_to_box
               ELSE /\ lastMsg' = "none"
                    /\ UNCHANGED <<buttons, threads>>

\* 'Upload to Box Now'
upload_to_box_manual ==
    /\ GuiIdle
    /\ tabs = 2
    /\ buttons.upload_now_btn
    /\ UNCHANGED <<tabs, metadata, devices, device_tree, current_deployment_folder,
                   file_inventory, box_authenticated, disk, copy, box>>
    /\ IF current_deployment_folder = None THEN
            /\ lastMsg' = "No deployment data to upload."
            /\ UNCHANGED <<buttons, threads>>
       ELSE upload_to_box

\* on_upload_progress: percent = int((current / total) * 100)
Percent(current, total) == (current * 100) \div total

\* the finished(success, message) signal of thread i is delivered
on_upload_finished(i) ==
    /\ GuiIdle
    /\ i \in DOMAIN threads
    /\ threads[i].pc = "emitted"
    /\ buttons' = AllEnabled
    /\ lastMsg' = IF threads[i].result = "ok" THEN "Upload Complete" ELSE "Upload Failed"
    /\ threads' = SubSeq(threads, 1, i - 1) \o SubSeq(threads, i + 1, Len(threads))
    /\ UNCHANGED <<tabs, metadata, devices, device_tree, current_deployment_folder,
                   file_inventory, box_authenticated, disk, copy, box>>

\* start_new_deployment with self.file_inventory = [] left out
start_new_deployment_KeepsInventory(reply) ==
    /\ GuiIdle
    /\ tabs = 2
    /\ buttons.new_btn
    /\ lastMsg' = "Start New Deployment"
    /\ IF reply THEN
            /\ metadata' = NoMeta
            /\ devices' = <<>>
            /\ current_deployment_folder' = None
            /\ device_tree' = <<>>
            /\ tabs' = 0
       ELSE UNCHANGED <<metadata, devices, current_deployment_folder, device_tree, tabs>>
    /\ UNCHANGED <<file_inventory, box_authenticated, buttons, disk, copy, threads, box>>

\* reply: answer to 'This will reset the wizard. Are you sure?'
start_new_deployment(reply) ==
    /\ GuiIdle
    /\ tabs = 2
    /\ buttons.new_btn
    /\ lastMsg' = "Start New Deployment"
    /\ IF reply THEN
            /\ metadata' = NoMeta
            /\ devices' = <<>>
            /\ file_inventory' = <<>>
            /\ current_deployment_folder' = None
            /\ device_tree' = <<>>
            /\ tabs' = 0
       ELSE UNCHANGED <<metadata, devices, file_inventory, current_deployment_folder,
                        device_tree, tabs>>
    /\ UNCHANGED <<box_authenticated, buttons, disk, copy, threads, box>>

\* ------------------------------------------------------- BoxUploadThread.run
guiVars == <<tabs, metadata, devices, device_tree, current_deployment_folder,
             file_inventory, box_authenticated, buttons, disk, copy, lastMsg>>

\* the name find_or_create_folder is looking for
LookupName(t) == IF t.part = 0 THEN t.deployment_folder ELSE t.file[t.part]

\* folders called name directly under parent
Matches(parent, name) ==
    {id \in DOMAIN box.folders :
        box.folders[id].parent = parent /\ box.folders[id].name = name}

Min(S) == CHOOSE x \in S : \A y \in S : x <= y

\* A step of an upload thread is the completion of one Box call together
\* with the local work that follows it up to the next Box call; the local
\* work includes counting the files and advancing the rglob generator.

\* the generator yields file p: upload_file_with_path(p) begins
Yield(t, p) ==
    [t EXCEPT !.pc = IF Len(p) > 1 THEN "lookup" ELSE "upload",
              !.part = IF Len(p) > 1 THEN 1 ELSE 0,
              !.file = p,
              !.pending = @ \ {p},
              !.walked = @ \cup {p},
              !.current_folder_id = t.deploy_folder]

\* the generator is exhausted: finished(True, 'Successfully uploaded N files to Box')
Finished(t) == [t EXCEPT !.pc = "emitted", !.result = "ok"]

\* for file_path in rglob('*'): the thread states after the generator has
\* advanced to its next file.  The generator lists a directory when it
\* reaches it: the deployment folder first, then raw_data for its device
\* directories, then each device directory when the one before is done.
\* entries: what the deployment folder holds at this moment
RECURSIVE Advance(_, _)
Advance(t, entries) ==
    IF t.pending # {} THEN {Yield(t, p) : p \in t.pending}
    ELSE IF t.stage = "start"
        THEN Advance([t EXCEPT !.stage = "top", !.pending = TopFiles(entries)], entries)
    ELSE IF t.stage = "top"
        THEN Advance([t EXCEPT !.stage = "sub", !.dirs = DeviceDirs(entries)], entries)
    ELSE IF t.dirs # {}
        THEN UNION {Advance([t EXCEPT !.dirs = @ \ {d}, !.pending = FilesIn(entries, d)],
                            entries) : d \in t.dirs}
    ELSE {Finished(t)}

\* find_or_create_folder returned folder id: where run / upload_file_with_path
\* go on.  After the deployment folder: total_files is counted, uploaded = 0
\* and the loop over rglob('*') begins
Continue(t, id, entries) ==
    IF t.part = 0
    THEN Advance([t EXCEPT !.deploy_folder = id, !.stage = "start",
                           !.total_files = Cardinality(FilesOf(entries))], entries)
    ELSE IF t.part < Len(t.file) - 1
         THEN {[t EXCEPT !.pc = "lookup", !.part = @ + 1, !.current_folder_id = id]}
         ELSE {[t EXCEPT !.pc = "upload", !.current_folder_id = id]}

\* the thread starts running: get_box_client() returns a client
run_auth(i) ==
    /\ i \in DOMAIN threads
    /\ threads[i].pc = "auth"
    /\ threads' = [threads EXCEPT ![i] = [@ EXCEPT !.pc = "lookup", !.part = 0,
                                                    !.current_folder_id = 0]]
    /\ UNCHANGED <<guiVars, box>>

\* run_auth_fails with the emit left out: run returns without a signal
run_auth_fails_NoEmit(i) ==
    /\ i \in DOMAIN threads
    /\ threads[i].pc = "auth"
    /\ threads' = [threads EXCEPT ![i] = [@ EXCEPT !.pc = "returned"]]
    /\ UNCHANGED <<guiVars, box>>

\* get_box_client() returns None: finished(False, 'Could not authenticate with Box')
run_auth_fails(i) ==
    /\ i \in DOMAIN threads
    /\ threads[i].pc = "auth"
    /\ threads' = [threads EXCEPT ![i] = [@ EXCEPT !.pc = "emitted", !.result = "auth"]]
    /\ UNCHANGED <<guiVars, box>>

\* find_or_create_folder: get_folder_items returns, the search loop runs
find_folder(i) ==
    /\ i \in DOMAIN threads
    /\ threads[i].pc = "lookup"
    /\ LET t == threads[i]
           m == Matches(t.current_folder_id, LookupName(t))
       IN \E t2 \in (IF m # {} THEN Continue(t, Min(m), disk[t.deployment_folder])
                              ELSE {[t EXCEPT !.pc = "create"]}) :
            threads' = [threads EXCEPT ![i] = t2]
    /\ UNCHANGED <<guiVars, box>>

\* find_or_create_folder: create_folder(folder_name, parent) returns
create_folder(i) ==
    /\ i \in DOMAIN threads
    /\ threads[i].pc = "create"
    /\ Len(box.folders) < MaxBoxFolders
    /\ LET t == threads[i]
       IN /\ box' = [box EXCEPT !.folders = Append(@, [parent |-> t.current_folder_id,
                                                       name |-> LookupName(t)])]
          /\ \E t2 \in Continue(t, Len(box.folders) + 1, disk[t.deployment_folder]) :
                threads' = [threads EXCEPT ![i] = t2]
    /\ UNCHANGED guiVars

\* as upload_file, but a file the remote folder already has is passed over
upload_file_SkipExisting(i) ==
    /\ i \in DOMAIN threads
    /\ threads[i].pc = "upload"
    /\ LET t == threads[i]
           target == [parent |-> t.current_folder_id, name |-> t.file[Len(t.file)]]
       IN /\ box' = [box EXCEPT !.files = @ \cup {target}]
          /\ \E t2 \in Advance([t EXCEPT !.uploaded = IF target \in box.files
                                                      THEN @ ELSE @ + 1],
                               disk[t.deployment_folder]) :
                threads' = [threads EXCEPT ![i] = t2]
    /\ UNCHANGED guiVars

\* upload_file_with_path: client.uploads.upload_file(...) returns;
\* uploaded += 1; progress.emit(uploaded, total_files, name); next file
upload_file(i) ==
    /\ i \in DOMAIN threads
    /\ threads[i].pc = "upload"
    /\ LET t == threads[i]
       IN /\ box' = [box EXCEPT !.files = @ \cup {[parent |-> t.current_folder_id,
                                                    name |-> t.file[Len(t.file)]]}]
          /\ \E t2 \in Advance([t EXCEPT !.uploaded = @ + 1], disk[t.deployment_folder]) :
                threads' = [threads EXCEPT ![i] = t2]
    /\ UNCHANGED guiVars

\* as run_raises, but the failed call is tried again
run_raises_Retry(i) ==
    /\ i \in DOMAIN threads
    /\ threads[i].pc \in {"lookup", "create", "upload"}
    /\ threads' = [threads EXCEPT ![i] = [@ EXCEPT !.result = "error"]]
    /\ UNCHANGED <<guiVars, box>>

\* a Box call (get_folder_items, create_folder, upload_file) raises:
\* except Exception -> finished(False, 'Upload error: ...')
run_raises(i) ==
    /\ i \in DOMAIN threads
    /\ threads[i].pc \in {"lookup", "create", "upload"}
    /\ threads' = [threads EXCEPT ![i] = [@ EXCEPT !.pc = "emitted", !.result = "error"]]
    /\ UNCHANGED <<guiVars, box>>

\* --------------------------------------------------------------------- Next
\* handlers of the wizard that start no upload; the user's inputs (form
\* contents, SD cards) are drawn from forms and cards
WizardNext(forms, cards) ==
    \/ \E i \in 0..2 : TabClick(i)
    \/ \E form \in forms : validate_and_next(form)
    \/ back_btn
    \* the dialogs of copy_sd_card_data: answering 'Copy again?' only matters
    \* for a Complete row, the card only when a directory was picked
    \/ \E sel \in 0..Len(device_tree), again \in BOOLEAN :
            copy_sd_card_data(sel, again, FALSE, <<>>)
    \/ \E sel \in 0..Len(device_tree), card \in cards :
            copy_sd_card_data(sel, TRUE, TRUE, card)
    \/ process_skip
    \/ process_copy
    \/ process_copy_raises
    \/ process_record
    \/ process_record_raises
    \/ process_return
    \/ \E sel \in 0..Len(device_tree) : skip_device(sel)
    \/ \E reply \in BOOLEAN : validate_and_next_collection(reply, FALSE)
    \/ \E reply \in BOOLEAN : start_new_deployment(reply)

\* the two ways an upload is started
StartUpload ==
    \/ upload_to_box_manual
    \/ \E reply \in BOOLEAN : validate_and_next_collection(reply, TRUE)

\* the upload threads and the delivery of their finished signal
ThreadNext ==
    \/ \E i \in DOMAIN threads : on_upload_finished(i)
    \/ \E i \in DOMAIN threads : run_auth(i)
    \/ \E i \in DOMAIN threads : run_auth_fails(i)
    \/ \E i \in DOMAIN threads : find_folder(i)
    \/ \E i \in DOMAIN threads : create_folder(i)
    \/ \E i \in DOMAIN threads : upload_file(i)
    \/ \E i \in DOMAIN threads : run_raises(i)

\* The whole application, used by a patient user: one device per
\* deployment, small cards, and an upload is started only when the
\* finished signal of the previous one has been handled
UploadForms ==
    {f \in Forms : f.checked \subseteq {"p1_ML"} /\ f.deployment_end = <<"202401", "05">>}
UploadCards == {c \in Cards : Len(c) <= 1 /\ \A k \in DOMAIN c : c[k].ext # ".wav"}

Next ==
    \/ WizardNext(UploadForms, UploadCards)
    \/ (threads = <<>> /\ StartUpload)
    \/ ThreadNext

Spec == Init /\ [][Next]_vars

\* The application started without a Box connection (check_box_auth
\* returned False): no upload can start; forms and cards are unrestricted
\* apart from the deployment end date
CopyForms ==
    {f \in Forms : f.checked \subseteq {"p1_ML"} /\ f.deployment_end = <<"202401", "05">>}

InitCopy == Init /\ ~box_authenticated

NextCopy == WizardNext(CopyForms, Cards)

SpecCopy == InitCopy /\ [][NextCopy]_vars

\* An impatient user: fills the form in correctly, copies no card, and may
\* start uploads while earlier ones are still running
RaceForms ==
    {f \in UploadForms : f.checked = {"p1_ML"} /\ f.site_code # "" /\ f.observer = "Imperato, John"}

NextRace ==
    \/ \E i \in 0..2 : TabClick(i)
    \/ \E form \in RaceForms : validate_and_next(form)
    \/ StartUpload
    \/ ThreadNext

InitRace == Init /\ box_authenticated

SpecRace == InitRace /\ [][NextRace]_vars

\* a step of upload thread i: the Box call it is waiting for returns or raises
ThreadStep(i) ==
    \/ run_auth(i)
    \/ run_auth_fails(i)
    \/ find_folder(i)
    \/ create_folder(i)
    \/ upload_file(i)
    \/ run_raises(i)

\* One upload at a time by a user who fills in the form correctly and may
\* copy cards at any moment, with the scheduling of the upload threads: a
\* thread whose Box call can return or raise is eventually given the answer
NextFair ==
    \/ \E i \in 0..2 : TabClick(i)
    \/ \E form \in RaceForms : validate_and_next(form)
    \/ \E sel \in 1..Len(device_tree), card \in UploadCards :
            copy_sd_card_data(sel, TRUE, TRUE, card)
    \/ process_skip
    \/ process_copy
    \/ process_record
    \/ process_return
    \/ \E reply \in BOOLEAN : validate_and_next_collection(reply, FALSE)
    \/ (threads = <<>> /\ StartUpload)
    \/ ThreadNext

SpecFair ==
    /\ InitRace
    /\ [][NextFair]_vars
    /\ \A i \in 1..MaxThreads : WF_vars(ThreadStep(i))

\* The wizard without SD cards and without a Box connection: every form the
\* user can fill in, both devices, both end dates
NextGate ==
    \/ \E i \in 0..2 : TabClick(i)
    \/ \E form \in Forms : validate_and_next(form)
    \/ back_btn
    \/ \E sel \in 0..Len(device_tree) : skip_device(sel)
    \/ \E reply \in BOOLEAN : validate_and_next_collection(reply, FALSE)
    \/ \E reply \in BOOLEAN : start_new_deployment(reply)

SpecGate == InitCopy /\ [][NextGate]_vars

\* ------------------------------------------------------------------ claims
\* the file a record of file_inventory names is in a device folder on disk
Recorded(r) ==
    \E f \in FolderNames : RawPath(r.device_label, r.new_filename) \in disk[f]

\* C1 - copy then record: in every reachable state, also after a copy
\* error part-way through a card and while a file has been copied but not
\* yet recorded, every record of file_inventory names a file that has been
\* copied into a device folder.
C1_CopyThenRecord == \A k \in DOMAIN file_inventory : Recorded(file_inventory[k])

\* a card failed on its second file: one record, its file on disk, and a
\* second file copied that was never recorded
C1_Witness ==
    /\ lastMsg = "Copy Error"
    /\ Len(file_inventory) = 1
    /\ \E f \in FolderNames : \E p \in disk[f] :
            /\ Len(p) = 3
            /\ p[3][5] = SeqStr(2)
            /\ \A k \in DOMAIN file_inventory : file_inventory[k].new_filename # p[3]

IsPrefix(s, t) == Len(s) <= Len(t) /\ SubSeq(t, 1, Len(s)) = s

\* C7 - a copy error is caught and nothing is rolled back: a call of
\* process_sd_card_files ends either by returning after the whole walk (the
\* row becomes Complete) or by an exception, and then 'Copy Error' is shown
\* and the device rows, the files on disk and file_inventory are left as
\* they are; while the call runs the rows do not change, no file is removed
\* and no record is removed.
C7_ErrorCaughtNoRollback ==
    [][/\ (copy.pc # "idle" /\ copy'.pc = "idle") =>
            IF copy.pc = "walk" /\ copy.walk = <<>>
            THEN device_tree'[copy.row].status = "Complete"
            ELSE /\ lastMsg' = "Copy Error"
                 /\ device_tree' = device_tree
                 /\ file_inventory' = file_inventory
                 /\ disk' = disk
       /\ (copy.pc # "idle" /\ copy'.pc # "idle") =>
            /\ device_tree' = device_tree
            /\ IsPrefix(file_inventory, file_inventory')
            /\ \A f \in FolderNames : disk[f] \subseteq disk'[f]]_vars

\* the copy of a card failed after a file had been copied and recorded:
\* the row is still Pending with 0 files, the record and the file remain
C7_Witness ==
    /\ lastMsg = "Copy Error"
    /\ copy = NoCopy
    /\ Len(file_inventory) = 1
    /\ Recorded(file_inventory[1])
    /\ Len(device_tree) = 1
    /\ device_tree[1].status = "Pending"
    /\ device_tree[1].copied = 0

\* the files the claim says are copied: name not starting with '.' or '_',
\* lower-cased extension an image or audio extension
Eligible(f) ==
    /\ f.first \notin {".", "_"}
    /\ Lower(f.ext) \in IMAGE_EXTENSIONS \cup AUDIO_EXTENSIONS

\* the eligible files among the first n files of the walk
EligibleUpTo(c, n) == SelectSeq(SubSeq(c.source_dir, 1, n), Eligible)

\* while a call runs: the files copied and recorded so far are exactly the
\* eligible files among those the walk has passed, in walk order
C10_Inv ==
    copy.pc # "idle" =>
        LET el == EligibleUpTo(copy, Len(copy.source_dir) - Len(copy.walk))
            n == Len(file_inventory)
        IN /\ copy.files_copied = Len(el)
           /\ n >= Len(el)
           /\ \A j \in 1..Len(el) :
                LET r == file_inventory[n - Len(el) + j]
                IN /\ r.device_label = copy.device_label
                   /\ r.new_filename[5] = SeqStr(j)
                   /\ r.new_filename[6] = Lower(el[j].ext)
                   /\ RawPath(r.device_label, r.new_filename) \in disk[copy.dest_dir]

\* one step of a call: a file that is not eligible changes neither the disk
\* nor the inventory, a record is only added for an eligible file, and the
\* count shown for the row on return is the number of eligible files
C10_Step ==
    /\ (copy.pc = "walk" /\ copy.walk # <<>> /\ ~Eligible(Head(copy.walk))) =>
            (disk' = disk /\ file_inventory' = file_inventory)
    /\ (copy.pc # "idle" /\ file_inventory' # file_inventory) =>
            (Eligible(Head(copy.walk)) /\ Len(file_inventory') = Len(file_inventory) + 1)
    /\ (copy.pc = "walk" /\ copy.walk = <<>> /\ copy'.pc = "idle") =>
            device_tree'[copy.row].copied = Len(EligibleUpTo(copy, Len(copy.source_dir)))

\* C10 - walking and classifying: process_sd_card_files copies and records
\* exactly the files of the walk whose name does not start with '.' or '_'
\* and whose lower-cased extension is an image or audio extension; other
\* files are neither copied nor recorded; the returned count is the number
\* of files the call copied.
C10_WalkAndClassify == []C10_Inv /\ [][C10_Step]_vars

\* a card of two files, one of them copied and the other skipped, at the
\* point where the call returns
C10_Witness ==
    /\ copy.pc = "walk"
    /\ copy.walk = <<>>
    /\ Len(copy.source_dir) = 2
    /\ copy.files_copied = 1
    /\ \E k \in 1..2 : copy.source_dir[k].first = "_"

\* ---------------------------------------------------------- upload claims
\* the remote store has, under the target folder, a folder named like the
\* local deployment folder f holding the folder chain of p and the file
Mirrored(f, p) ==
    \E d \in Matches(0, f) :
        IF Len(p) = 1
        THEN [parent |-> d, name |-> p[1]] \in box.files
        ELSE \E a \in Matches(d, p[1]) : \E b \in Matches(a, p[2]) :
                [parent |-> b, name |-> p[3]] \in box.files

\* thread i emits finished(True, ...) in this step
EmitsSuccess(i) ==
    /\ i \in DOMAIN threads /\ i \in DOMAIN threads'
    /\ threads[i].pc # "emitted"
    /\ threads'[i].pc = "emitted"
    /\ threads'[i].result = "ok"

\* C2 - mirroring: when an upload run ends with finished(True, ...), every
\* file in the local deployment folder has its folder chain and a file of
\* its name in the remote deployment folder.
C2_Mirroring ==
    [][\A i \in DOMAIN threads :
            EmitsSuccess(i) =>
                \A p \in FilesOf(disk'[threads[i].deployment_folder]) :
                    Mirrored(threads[i].deployment_folder, p)']_vars

NoDuplicateFolders ==
    \A a, b \in DOMAIN box.folders :
        (box.folders[a].parent = box.folders[b].parent
            /\ box.folders[a].name = box.folders[b].name) => a = b

\* C3 - folders are created only when missing: a thread calls create_folder
\* only while the parent has no folder of that name, and no remote parent
\* folder has two subfolders of the same name.
C3_CreateOnlyWhenMissing ==
    /\ \A i \in DOMAIN threads :
            threads[i].pc = "create" =>
                Matches(threads[i].current_folder_id, LookupName(threads[i])) = {}
    /\ NoDuplicateFolders

\* C4 - a single background worker: at most one BoxUploadThread has been
\* started and has not yet emitted finished.
C4_SingleWorker ==
    Cardinality({i \in DOMAIN threads : Running(threads[i])}) <= 1

\* C5 - the upload follows the manifest writer: every upload thread works
\* on a deployment folder for which manifest.json and file_metadata.csv
\* have been generated.
C5_UploadAfterManifest ==
    \A i \in DOMAIN threads :
        MetadataFiles \subseteq disk[threads[i].deployment_folder]

\* a step of a step-2 operation that acts (does more than show a message)
Step2Acts ==
    /\ tabs = 1 \/ copy.pc # "idle"
    /\ \/ device_tree' # device_tree
       \/ copy' # copy
       \/ disk' # disk
       \/ file_inventory' # file_inventory
       \/ tabs' = 2 /\ Len(threads') > Len(threads)

\* C6 - the three steps are linear: the step-2 operations act only when
\* step 1 has succeeded since startup or the last reset (a deployment
\* folder is set), and the review step is shown only when the metadata
\* files of the current deployment have been generated.
C6_LinearSteps ==
    /\ [](tabs = 2 =>
            /\ current_deployment_folder # None
            /\ MetadataFiles \subseteq disk[current_deployment_folder])
    /\ [][Step2Acts => current_deployment_folder # None]_vars

\* thread i stops with a failure in this step
EmitsFailure(i) ==
    /\ i \in DOMAIN threads /\ i \in DOMAIN threads'
    /\ threads[i].pc # "emitted"
    /\ threads'[i].pc = "emitted"
    /\ threads'[i].result # "ok"

\* a thread that has emitted finished(False, ...) does nothing more: it is
\* left as it is, or its signal is delivered and 'Upload Failed' is shown
FailedStays(i) ==
    \/ i \in DOMAIN threads' /\ threads'[i] = threads[i]
    \/ /\ Len(threads') < Len(threads)
       /\ \/ i - 1 \in DOMAIN threads' /\ threads'[i - 1] = threads[i]
          \/ lastMsg' = "Upload Failed"

\* the result of a thread is set exactly when it has emitted finished
C8_Inv ==
    \A i \in DOMAIN threads :
        /\ threads[i].result # "none" <=> threads[i].pc = "emitted"
        /\ threads[i].result = "auth" => threads[i].uploaded = 0

C8_Step ==
    \A i \in DOMAIN threads :
        /\ EmitsFailure(i) =>
                /\ box' = box
                /\ threads'[i] = [threads[i] EXCEPT !.pc = "emitted",
                                                     !.result = threads'[i].result]
        /\ (threads[i].pc = "emitted" /\ threads[i].result # "ok") =>
                /\ FailedStays(i)
                /\ box.files \subseteq box'.files
                /\ IsPrefix(box.folders, box'.folders)

\* C8 - an upload error is caught with no retry: when authentication fails
\* or a folder lookup, folder creation or file upload raises, the run stops
\* at that call, the remote store is left as it is, finished(False, ...) is
\* emitted and never finished(True, ...), the thread does nothing more, and
\* the delivery of the signal shows 'Upload Failed'.
C8_UploadErrorNoRetry == []C8_Inv /\ [][C8_Step]_vars

\* a run failed after it had uploaded a file: the file is still there
C8_Witness ==
    \E i \in DOMAIN threads :
        /\ threads[i].pc = "emitted"
        /\ threads[i].result = "error"
        /\ threads[i].uploaded >= 1
        /\ \E p \in threads[i].walked : Mirrored(threads[i].deployment_folder, p)

\* the walk of a running thread has begun
Walking(t) == t.stage # "start"

\* every file the walk has yielded was uploaded by this run, except the one
\* the run is working on or failed on
C9_Inv ==
    \A i \in DOMAIN threads :
        LET t == threads[i]
        IN /\ ~Walking(t) => (t.uploaded = 0 /\ t.walked = {})
           /\ Walking(t) =>
                Cardinality(t.walked) =
                    t.uploaded + (IF t.result = "ok" THEN 0 ELSE 1)
           /\ (t.pc = "emitted" /\ t.result = "ok") => (t.pending = {} /\ t.dirs = {})

\* a new run starts from nothing, and its walk begins with all the files
\* at the top of the deployment folder, whatever the remote store holds
C9_Step ==
    /\ Len(threads') > Len(threads) =>
            threads' = Append(threads, NewThread(current_deployment_folder))
    /\ \A i \in DOMAIN threads :
            (i \in DOMAIN threads' /\ ~Walking(threads[i]) /\ Walking(threads'[i])) =>
                threads'[i].walked \cup threads'[i].pending =
                    TopFiles(disk[threads[i].deployment_folder])

\* C9 - nothing is resumed: an upload run starts with no record of earlier
\* runs, walks every file of the deployment folder from the first one, and
\* uploads each file the walk yields, also when an earlier run has already
\* uploaded it.
C9_NothingResumed == []C9_Inv /\ [][C9_Step]_vars

\* a run is about to upload a file that an earlier run has uploaded
C9_Witness ==
    \E i \in DOMAIN threads :
        /\ threads[i].pc = "upload"
        /\ [parent |-> threads[i].current_folder_id,
            name |-> threads[i].file[Len(threads[i].file)]] \in box.files
        /\ threads[i].uploaded = 0

\* ------------------------------------------------------------ naming claim
\* the number a string of decimal digits stands for
RECURSIVE Value(_)
Value(d) == IF d = <<>> THEN 0 ELSE 10 * Value(SubSeq(d, 1, Len(d) - 1)) + d[Len(d)]

\* the names of the files the running call has copied and recorded
NamesOfCall ==
    {file_inventory[k].new_filename :
        k \in (Len(file_inventory) - copy.files_copied + 1)..Len(file_inventory)}

\* skipped files consume no number: the next number is one more than the
\* number of files copied
C11_Inv == copy.pc # "idle" => copy.file_sequence = copy.files_copied + 1

\* the step that copies a file writes one new path
\* raw_data/<device>/<org, site, device, YYYYMM, seq, lower-cased extension>
\* whose seq has at least 5 digits and the value 1 + files copied before,
\* a name no file copied earlier by this call has
C11_Step ==
    (copy.pc = "walk" /\ copy'.pc = "record") =>
        \E p \in FilesIn(disk'[copy.dest_dir], RawDir(copy.device_label)) :
            LET nm == p[3][5]
                name == <<"UC", metadata.site, copy.device_label,
                          metadata.deployment_end[1], nm,
                          Lower(Head(copy.walk).ext)>>
            IN /\ disk'[copy.dest_dir] =
                    disk[copy.dest_dir] \cup {RawPath(copy.device_label, name)}
               /\ Len(nm) >= 5
               /\ Value(nm) = copy.files_copied + 1
               /\ name \notin NamesOfCall

\* C11 - naming convention: every file a process_sd_card_files call copies
\* is named organization, site, plot and device, YYYYMM of the deployment
\* end, a sequence number of at least 5 digits and the lower-cased
\* extension; the numbers start at 1 and grow by one per copied file,
\* skipped files take none, so the names of one call are pairwise distinct.
C11_NamingConvention == []C11_Inv /\ [][C11_Step]_vars

\* a call that has copied two files: they are numbered 00001 and 00002
C11_Witness ==
    /\ copy.pc = "walk"
    /\ copy.files_copied = 2
    /\ \A j \in 1..2 : \E e \in IMAGE_EXTENSIONS \cup AUDIO_EXTENSIONS :
            RawPath(copy.device_label,
                    <<"UC", metadata.site, copy.device_label,
                      metadata.deployment_end[1], <<0, 0, 0, 0, j>>, e>>)
                \in disk[copy.dest_dir]

\* C12 - progress reporting: whenever progress(current, total, name) has
\* been emitted by a run (current = the number of files uploaded so far,
\* at least 1), total is not 0, current does not exceed total and the
\* percentage set on the progress bar is between 0 and 100.
C12_Progress ==
    \A i \in DOMAIN threads :
        threads[i].uploaded >= 1 =>
            /\ threads[i].total_files # 0
            /\ threads[i].uploaded <= threads[i].total_files
            /\ Percent(threads[i].uploaded, threads[i].total_files) \in 0..100

\* a step in which generate_metadata_files writes the csv and the manifest
\* of the current deployment
GeneratesMetadata ==
    /\ GuiIdle
    /\ tabs = 1
    /\ tabs' = 2
    /\ current_deployment_folder # None
    /\ disk' = [disk EXCEPT ![current_deployment_folder] = @ \cup MetadataFiles]

\* the files under raw_data of the current deployment folder
RawFiles == {p \in disk[current_deployment_folder] : Len(p) = 3}

\* C13 - the file count reported is the number of files on disk: whenever
\* the metadata files are generated, len(file_inventory) equals the number
\* of files under raw_data of the current deployment folder.
C13_CountMatchesDisk ==
    [][GeneratesMetadata => Len(file_inventory) = Cardinality(RawFiles)]_vars

\* the form passes the gate of step 1
ValidForm(form) ==
    /\ form.reserve # ""
    /\ form.site_code # ""
    /\ form.observer # ""
    /\ form.observer = "Other" => form.other \notin {"", " "}
    /\ form.checked # {}

Warnings ==
    {"Please select a site.", "Please select a valid site.",
     "Please select who is downloading data.",
     "Please enter a name for 'Other' option.",
     "Please select at least one device."}

\* C14 - step-1 validation gate: a press of 'Next: Collect SD Card Data'
\* with a valid form (site with a site code, a downloader, a non-blank
\* name for 'Other', at least one device) creates the deployment folder,
\* fills the device list and shows step 2; with any other form it shows a
\* warning, creates no folder and stays on step 1.
C14_ValidationGate ==
    [][(tabs = 0 /\ tabs' \in {0, 1}) => \A form \in Forms :
            validate_and_next(form) =>
                IF ValidForm(form)
                THEN /\ tabs' = 1
                     /\ current_deployment_folder' =
                            <<"UC", form.site_code, form.deployment_end[1],
                              form.deployment_end[2]>>
                     /\ MetaPath("deployment_metadata.json")
                            \in disk'[current_deployment_folder']
                     /\ Len(device_tree') = Cardinality(form.checked)
                     /\ \A k \in DOMAIN device_tree' :
                            /\ device_tree'[k].dev \in form.checked
                            /\ device_tree'[k].status = "Pending"
                ELSE /\ lastMsg' \in Warnings
                     /\ tabs' = 0
                     /\ disk' = disk
                     /\ current_deployment_folder' = current_deployment_folder
                     /\ device_tree' = device_tree]_vars

\* the form had a site and a downloader but no device checked: the
\* warning is shown on step 1 and there is no deployment folder
C14_Witness ==
    /\ lastMsg = "Please select at least one device."
    /\ tabs = 0
    /\ metadata.site # ""
    /\ current_deployment_folder = None
    /\ \A f \in FolderNames : disk[f] = {}

\* C15 - authentication gate: an upload thread exists only when
\* box_authenticated is true; when Box was not authenticated at startup
\* 'Upload to Box Now' is disabled, no thread is ever started and an
\* upload is never asked for (the message 'Please authenticate with Box
\* first.' has no occasion to be shown).
C15_AuthGate ==
    /\ threads # <<>> => box_authenticated
    /\ ~box_authenticated =>
            /\ ~buttons.upload_now_btn
            /\ threads = <<>>
            /\ lastMsg # "Please authenticate with Box first."

\* without a Box connection the user has reached the review step with the
\* metadata files written: the upload button is disabled, nothing uploads
C15_Witness ==
    /\ ~box_authenticated
    /\ tabs = 2
    /\ current_deployment_folder # None
    /\ MetadataFiles \subseteq disk[current_deployment_folder]
    /\ ~buttons.upload_now_btn
    /\ threads = <<>>

\* C16 - Start New Deployment resets the wizard: on Yes metadata, devices
\* and file_inventory become empty, current_deployment_folder becomes
\* None, the device tree is cleared and step 1 is shown, and the staged
\* files stay as they are; on No nothing changes.
C16_Reset ==
    [][tabs = 2 => \A reply \in BOOLEAN :
            start_new_deployment(reply) =>
                IF reply
                THEN /\ metadata' = NoMeta
                     /\ devices' = <<>>
                     /\ file_inventory' = <<>>
                     /\ current_deployment_folder' = None
                     /\ device_tree' = <<>>
                     /\ tabs' = 0
                     /\ UNCHANGED <<disk, box, threads, buttons, box_authenticated, copy>>
                ELSE UNCHANGED <<tabs, metadata, devices, device_tree,
                                 current_deployment_folder, file_inventory,
                                 box_authenticated, buttons, disk, copy, threads, box>>]_vars

\* the wizard was reset after a file had been staged: the inventory is
\* empty, the file is still on disk
C16_Witness ==
    /\ lastMsg = "Start New Deployment"
    /\ tabs = 0
    /\ current_deployment_folder = None
    /\ metadata = NoMeta
    /\ file_inventory = <<>>
    /\ device_tree = <<>>
    /\ \E f \in FolderNames : \E p \in disk[f] : Len(p) = 3

\* some device row is still Pending
SomePending == \E i \in DOMAIN device_tree : device_tree[i].status = "Pending"

\* C17 - pending devices need confirmation: when 'Next: Review & Finalize'
\* is pressed with a Pending device and the answer is No, no manifest or
\* CSV is written, step 2 stays and no upload starts; on Yes, or with no
\* Pending device, the review step is shown with the metadata files of the
\* current deployment written.
C17_PendingConfirm ==
    [][tabs = 1 => \A reply, cb \in BOOLEAN :
            validate_and_next_collection(reply, cb) =>
                IF SomePending /\ ~reply
                THEN /\ lastMsg' = "Incomplete Collection"
                     /\ UNCHANGED <<tabs, disk, threads, buttons>>
                ELSE /\ tabs' = 2 =>
                            MetadataFiles \subseteq disk'[current_deployment_folder]
                     /\ current_deployment_folder # None => tabs' = 2]_vars

\* the user answered No with a Pending device: step 2 is still shown, no
\* metadata file exists and nothing uploads
C17_Witness ==
    /\ lastMsg = "Incomplete Collection"
    /\ tabs = 1
    /\ SomePending
    /\ current_deployment_folder # None
    /\ MetadataFiles \cap disk[current_deployment_folder] = {}
    /\ threads = <<>>
    /\ box_authenticated

\* C18 - buttons are disabled during upload: while an upload has been
\* started and its finished signal has not been handled, 'Open Staging
\* Folder', 'Upload to Box Now' and 'Start New Deployment' are disabled;
\* when the signal of the last one has been handled all three are enabled.
C18_ButtonsDisabled ==
    /\ threads # <<>> => buttons = AllDisabled
    /\ (threads = <<>> /\ lastMsg \in {"Upload Complete", "Upload Failed"}) =>
            buttons = AllEnabled

\* the finished signal is emitted once: a thread that has emitted stays as
\* it is until its signal is handled; its result is set exactly then, and
\* on success the number reported is the number of files the walk yielded
C19_Once ==
    \A i \in DOMAIN threads :
        threads[i].pc = "emitted" =>
            \/ i \in DOMAIN threads' /\ threads'[i] = threads[i]
            \/ Len(threads') < Len(threads)

C19_Inv ==
    \A i \in DOMAIN threads :
        /\ threads[i].pc = "emitted" <=> threads[i].result \in {"ok", "error", "auth"}
        /\ threads[i].pc # "emitted" => threads[i].result = "none"
        /\ threads[i].result = "ok" => threads[i].uploaded = Cardinality(threads[i].walked)

\* C19 - every started upload run terminates with exactly one result:
\* with one upload at a time and every Box call returning or raising, a
\* started run eventually emits finished, on each path (authentication
\* failure, success, exception) once, and on success the number of files
\* reported is the number of files uploaded.
C19_Terminates ==
    /\ (threads # <<>> /\ threads[1].pc # "emitted")
            ~> (threads # <<>> /\ threads[1].pc = "emitted")
    /\ []C19_Inv
    /\ [][C19_Once]_vars

\* a run has ended with success after uploading two files
C19_Witness ==
    /\ threads # <<>>
    /\ threads[1].pc = "emitted"
    /\ threads[1].result = "ok"
    /\ threads[1].uploaded >= 2

\* C20 - the device tree and the device list stay aligned: the tree has
\* len(devices) rows, row i is the row of devices[i], and no handler of
\* step 2 fails to find the device of the selected row.
C20_TreeAligned ==
    /\ Len(device_tree) = Len(devices)
    /\ \A i \in DOMAIN device_tree : device_tree[i].dev = devices[i]
    /\ lastMsg # "IndexError"

====
